---- MODULE Spec2Model ----
(***************************************************************************)
(* Session store, cache layer and chat orchestration of the news-article   *)
(* RAG backend (src/sessionManager.js, src/reg.js).                        *)
(*                                                                         *)
(* Strings are sequences of one-character strings.  JavaScript values are  *)
(* tagged records; JSON.stringify and JSON.parse are computed on the       *)
(* character level.  The Redis store maps live keys to a string value and  *)
(* the seconds the key has left.                                           *)
(***************************************************************************)
EXTENDS Integers, Sequences, FiniteSets, TLC

(***************************************************************************)
(* JavaScript values.                                                      *)
(***************************************************************************)
JNull == [t |-> "null"]
JUndef == [t |-> "undefined"]
JBool(b) == [t |-> "bool", b |-> b]
JNum(n) == [t |-> "num", n |-> n]
JStr(s) == [t |-> "str", s |-> s]
JArr(a) == [t |-> "arr", a |-> a]
\* An object keeps its properties in insertion order: k the names, v the values.
JObj(k, v) == [t |-> "obj", k |-> k, v |-> v]

\* Thrown errors, as values a call can end with.
SyntaxError == [t |-> "throw", e |-> "SyntaxError"]
TypeError == [t |-> "throw", e |-> "TypeError"]
IsThrow(r) == r.t = "throw"

\* JavaScript truthiness of a value (the ?: and || tests of the source).
Truthy(x) ==
  CASE x.t = "null" -> FALSE
    [] x.t = "undefined" -> FALSE
    [] x.t = "bool" -> x.b
    [] x.t = "num" -> x.n # 0
    [] x.t = "str" -> x.s # <<>>
    [] OTHER -> TRUE

(***************************************************************************)
(* JSON.stringify.                                                         *)
(***************************************************************************)
DigitChars == <<"0", "1", "2", "3", "4", "5", "6", "7", "8", "9">>

RECURSIVE Dec(_)
Dec(n) == IF n < 10 THEN <<DigitChars[n + 1]>>
          ELSE Dec(n \div 10) \o <<DigitChars[(n % 10) + 1]>>

RECURSIVE Escape(_)
Escape(s) ==
  IF s = <<>> THEN <<>>
  ELSE (IF Head(s) \in {"\"", "\\"} THEN <<"\\", Head(s)>> ELSE <<Head(s)>>)
       \o Escape(Tail(s))

Quote(s) == <<"\"">> \o Escape(s) \o <<"\"">>

RECURSIVE Stringify(_)
RECURSIVE StringifyElems(_, _)
RECURSIVE StringifyMembers(_, _, _)
Stringify(x) ==
  CASE x.t = "null" -> <<"n", "u", "l", "l">>
    [] x.t = "bool" -> IF x.b THEN <<"t", "r", "u", "e">>
                       ELSE <<"f", "a", "l", "s", "e">>
    [] x.t = "num" -> Dec(x.n)
    [] x.t = "str" -> Quote(x.s)
    [] x.t = "arr" -> <<"[">> \o StringifyElems(x.a, 1) \o <<"]">>
    [] x.t = "obj" -> <<"{">> \o StringifyMembers(x.k, x.v, 1) \o <<"}">>

StringifyElems(a, i) ==
  IF i > Len(a) THEN <<>>
  ELSE (IF i > 1 THEN <<",">> ELSE <<>>)
       \o (IF a[i].t = "undefined" THEN Stringify(JNull) ELSE Stringify(a[i]))
       \o StringifyElems(a, i + 1)

StringifyMembers(k, v, i) ==
  IF i > Len(k) THEN <<>>
  ELSE (IF i > 1 THEN <<",">> ELSE <<>>)
       \o Quote(k[i]) \o <<":">> \o Stringify(v[i])
       \o StringifyMembers(k, v, i + 1)

(***************************************************************************)
(* JSON.parse: a recursive-descent parser.  A parse step returns           *)
(* [ok, v, i]: whether a value was read, the value, and the next index.    *)
(***************************************************************************)
PFail == [ok |-> FALSE, v |-> JNull, i |-> 0]
POk(v, i) == [ok |-> TRUE, v |-> v, i |-> i]

RECURSIVE SkipWs(_, _)
SkipWs(s, i) == IF i <= Len(s) /\ s[i] = " " THEN SkipWs(s, i + 1) ELSE i

IsLit(s, i, lit) ==
  /\ i + Len(lit) - 1 <= Len(s)
  /\ SubSeq(s, i, i + Len(lit) - 1) = lit

DigitVal(c) == CHOOSE d \in 0..9 : DigitChars[d + 1] = c
IsDigit(c) == \E d \in 1..10 : DigitChars[d] = c

RECURSIVE ParseDigits(_, _, _)
ParseDigits(s, i, acc) ==
  IF i <= Len(s) /\ IsDigit(s[i])
  THEN ParseDigits(s, i + 1, acc * 10 + DigitVal(s[i]))
  ELSE POk(JNum(acc), i)

\* A JSON number here is a non-negative integer without a leading zero.
ParseNumber(s, i) ==
  IF s[i] = "0" THEN POk(JNum(0), i + 1) ELSE ParseDigits(s, i, 0)

\* The characters of a string literal whose opening quote is at i - 1.
RECURSIVE ParseChars(_, _, _)
ParseChars(s, i, acc) ==
  IF i > Len(s) THEN PFail
  ELSE IF s[i] = "\"" THEN POk(JStr(acc), i + 1)
  ELSE IF s[i] = "\\"
       THEN IF i + 1 <= Len(s) /\ s[i + 1] \in {"\"", "\\"}
            THEN ParseChars(s, i + 2, Append(acc, s[i + 1]))
            ELSE PFail
  ELSE ParseChars(s, i + 1, Append(acc, s[i]))

RECURSIVE ParseValue(_, _)
RECURSIVE ParseElems(_, _, _)
RECURSIVE ParseMembers(_, _, _, _)
ParseValue(s, i0) ==
  LET i == SkipWs(s, i0) IN
  IF i > Len(s) THEN PFail
  ELSE IF IsLit(s, i, <<"n", "u", "l", "l">>) THEN POk(JNull, i + 4)
  ELSE IF IsLit(s, i, <<"t", "r", "u", "e">>) THEN POk(JBool(TRUE), i + 4)
  ELSE IF IsLit(s, i, <<"f", "a", "l", "s", "e">>) THEN POk(JBool(FALSE), i + 5)
  ELSE IF IsDigit(s[i]) THEN ParseNumber(s, i)
  ELSE IF s[i] = "\"" THEN ParseChars(s, i + 1, <<>>)
  ELSE IF s[i] = "["
       THEN LET j == SkipWs(s, i + 1) IN
            IF j <= Len(s) /\ s[j] = "]" THEN POk(JArr(<<>>), j + 1)
            ELSE ParseElems(s, j, <<>>)
  ELSE IF s[i] = "{"
       THEN LET j == SkipWs(s, i + 1) IN
            IF j <= Len(s) /\ s[j] = "}" THEN POk(JObj(<<>>, <<>>), j + 1)
            ELSE ParseMembers(s, j, <<>>, <<>>)
  ELSE PFail

ParseElems(s, i, acc) ==
  LET e == ParseValue(s, i) IN
  IF ~e.ok THEN PFail
  ELSE LET j == SkipWs(s, e.i) IN
       IF j > Len(s) THEN PFail
       ELSE IF s[j] = "," THEN ParseElems(s, j + 1, Append(acc, e.v))
       ELSE IF s[j] = "]" THEN POk(JArr(Append(acc, e.v)), j + 1)
       ELSE PFail

ParseMembers(s, i0, ks, vs) ==
  LET i == SkipWs(s, i0) IN
  IF i > Len(s) \/ s[i] # "\"" THEN PFail
  ELSE LET name == ParseChars(s, i + 1, <<>>) IN
       IF ~name.ok THEN PFail
       ELSE LET c == SkipWs(s, name.i) IN
            IF c > Len(s) \/ s[c] # ":" THEN PFail
            ELSE LET e == ParseValue(s, c + 1) IN
                 IF ~e.ok THEN PFail
                 ELSE LET j == SkipWs(s, e.i) IN
                      IF j > Len(s) THEN PFail
                      ELSE IF s[j] = ","
                           THEN ParseMembers(s, j + 1, Append(ks, name.v.s),
                                             Append(vs, e.v))
                      ELSE IF s[j] = "}"
                           THEN POk(JObj(Append(ks, name.v.s), Append(vs, e.v)),
                                    j + 1)
                      ELSE PFail

\* JSON.parse(s): the value, or a thrown SyntaxError.
JsonParse(s) ==
  LET r == ParseValue(s, 1) IN
  IF r.ok /\ SkipWs(s, r.i) > Len(s) THEN r.v ELSE SyntaxError

(***************************************************************************)
(* Bounds of the model and constants of the program.                       *)
(***************************************************************************)
\* Calls of the exported functions in one run.
MaxCalls == 2

SESSION_TTL == 1800
CACHE_TTL == 3600
\* client.set without EX: the key never expires.
NoExpiry == -1

Procs == {1, 2}

\* Literal strings of the source.
S_query == <<"q", "u", "e", "r", "y">>
S_answer == <<"a", "n", "s", "w", "e", "r">>
S_foo == <<"f", "o", "o">>
S_bar == <<"b", "a", "r">>
S_embed == <<"e", "m", "b", "e", "d", ":">>
S_retrieve == <<"r", "e", "t", "r", "i", "e", "v", "e", ":">>
S_title == <<"t", "i", "t", "l", "e">>
S_content == <<"c", "o", "n", "t", "e", "n", "t">>
S_link == <<"l", "i", "n", "k">>

VARIABLES
  store,      \* Redis: live key -> [val: the string, ttl: seconds left or NoExpiry]
  req,        \* the request each process slot is serving, with its locals
  resp,       \* what the last read-only call returned
  lastWrite,  \* history: key -> the last write call on it and the seconds since
  calls       \* requests started

vars == <<store, req, resp, lastWrite, calls>>

(***************************************************************************)
(* The Redis client: SET key value EX ttl, GET key.                        *)
(***************************************************************************)
RedisSet(st, key, val, ttl) ==
  [k \in DOMAIN st \cup {key} |->
     IF k = key THEN [val |-> val, ttl |-> ttl] ELSE st[k]]

RedisGet(st, key) == IF key \in DOMAIN st THEN JStr(st[key].val) ELSE JNull

\* d seconds pass: every key with an expiry loses d seconds and is dropped at 0.
RedisExpire(st, d) ==
  LET live == {k \in DOMAIN st : st[k].ttl = NoExpiry \/ st[k].ttl > d} IN
  [k \in live |->
     IF st[k].ttl = NoExpiry THEN st[k] ELSE [st[k] EXCEPT !.ttl = @ - d]]

\* A defaulted parameter: the default replaces undefined.
Default(arg, dflt) == IF arg.t = "undefined" THEN dflt ELSE arg.n

(***************************************************************************)
(* sessionManager.js.  A function is an operator from the store and the    *)
(* arguments to [ret, st]: what it returns (or throws) and the store after.*)
(***************************************************************************)
EmptyHistory == JArr(<<>>)

\* createSession that stores no history: the key holds JSON null.
createSessionNull(st, sessionId, ttlArg, uuid) ==
  LET id == IF Truthy(sessionId) THEN sessionId.s ELSE uuid IN
  [ret |-> JStr(id),
   st |-> RedisSet(st, id, Stringify(JNull), Default(ttlArg, SESSION_TTL))]

createSession(st, sessionId, ttlArg, uuid) ==
  LET id == IF Truthy(sessionId) THEN sessionId.s ELSE uuid IN
  [ret |-> JStr(id),
   st |-> RedisSet(st, id, Stringify(EmptyHistory), Default(ttlArg, SESSION_TTL))]

getSession(st, sessionId) ==
  LET data == RedisGet(st, sessionId) IN
  IF Truthy(data) THEN JsonParse(data.s) ELSE JNull

\* What (await getSession(id)) || [] is for a returned value.
HistoryOrEmpty(v) == IF Truthy(v) THEN v ELSE EmptyHistory

\* appendToSession that puts the entry first (unshift for push).
appendToSessionReadFront(st, sessionId, entry) ==
  LET got == IF sessionId \in DOMAIN st THEN JsonParse(st[sessionId].val) ELSE JNull IN
  IF IsThrow(got) THEN got
  ELSE LET history == IF Truthy(got) THEN got ELSE JArr(<<>>) IN
       IF history.t # "arr" THEN TypeError
       ELSE JArr(<<entry>> \o history.a)

\* appendToSession up to its second await: the history read, with the entry
\* pushed; a thrown error when the read or the push throws.
appendToSessionRead(st, sessionId, entry) ==
  LET got == getSession(st, sessionId) IN
  IF IsThrow(got) THEN got
  ELSE LET history == HistoryOrEmpty(got) IN
       IF history.t # "arr" THEN TypeError
       ELSE JArr(Append(history.a, entry))

\* appendToSession whose write is atomic with a fresh read: the entry is put
\* after what the key holds at the write.
appendToSessionWriteMerged(st, sessionId, history, ttlArg) ==
  LET now == IF sessionId \in DOMAIN st THEN JsonParse(st[sessionId].val)
             ELSE JArr(<<>>)
      merged == JArr(Append(now.a, history.a[Len(history.a)])) IN
  [ret |-> merged,
   st |-> RedisSet(st, sessionId, Stringify(merged), Default(ttlArg, SESSION_TTL))]

\* appendToSession that leaves the key's remaining lifetime as it is (KEEPTTL).
appendToSessionWriteKeepTtl(st, sessionId, history, ttlArg) ==
  [ret |-> history,
   st |-> RedisSet(st, sessionId, Stringify(history),
                   IF sessionId \in DOMAIN st THEN st[sessionId].ttl
                   ELSE Default(ttlArg, SESSION_TTL))]

\* appendToSession from its second await on: the write of the pushed history.
appendToSessionWrite(st, sessionId, history, ttlArg) ==
  [ret |-> history,
   st |-> RedisSet(st, sessionId, Stringify(history), Default(ttlArg, SESSION_TTL))]

\* saveSession that stores an empty history as no history (JSON null).
saveSessionNullIfEmpty(st, sessionId, history, ttlArg) ==
  [ret |-> history,
   st |-> RedisSet(st, sessionId,
                   IF history.a = <<>> THEN Stringify(JNull) ELSE Stringify(history),
                   Default(ttlArg, SESSION_TTL))]

saveSession(st, sessionId, history, ttlArg) ==
  [ret |-> history,
   st |-> RedisSet(st, sessionId, Stringify(history), Default(ttlArg, SESSION_TTL))]

\* clearSession that deletes the key.
clearSessionDel(st, sessionId, ttlArg) ==
  [ret |-> JArr(<<>>),
   st |-> [k \in DOMAIN st \ {sessionId} |-> st[k]]]

clearSession(st, sessionId, ttlArg) ==
  [ret |-> EmptyHistory,
   st |-> RedisSet(st, sessionId, Stringify(EmptyHistory), Default(ttlArg, SESSION_TTL))]

cacheSet(st, key, value, ttlArg) ==
  [ret |-> JUndef,
   st |-> RedisSet(st, key,
                   IF value.t = "str" THEN value.s ELSE Stringify(value),
                   Default(ttlArg, CACHE_TTL))]

cacheGet(st, key) ==
  LET v == RedisGet(st, key) IN
  IF Truthy(v) THEN JsonParse(v.s) ELSE JNull

(***************************************************************************)
(* reg.js: simpleHash, a 32-bit FNV-1a.  The 32-bit word is kept as two    *)
(* 16-bit halves [hi, lo] so that no product leaves the integers TLC has.  *)
(***************************************************************************)
LowerChars == <<"a", "b", "c", "d", "e", "f", "g", "h", "i", "j", "k", "l", "m",
                "n", "o", "p", "q", "r", "s", "t", "u", "v", "w", "x", "y", "z">>
HexChars == <<"0", "1", "2", "3", "4", "5", "6", "7",
              "8", "9", "a", "b", "c", "d", "e", "f">>

\* s.charCodeAt(i) for the characters the model's inputs are made of.
CharCode(c) ==
  IF c = " " THEN 32
  ELSE IF c = ":" THEN 58
  ELSE IF IsDigit(c) THEN 48 + DigitVal(c)
  ELSE 96 + (CHOOSE n \in 1..26 : LowerChars[n] = c)

RECURSIVE Xor(_, _, _)
Xor(a, b, bits) ==
  IF bits = 0 THEN 0
  ELSE (IF (a % 2) # (b % 2) THEN 1 ELSE 0) + 2 * Xor(a \div 2, b \div 2, bits - 1)

\* Math.imul(h, 16777619), 16777619 = 2^24 + 403.
Imul(h) ==
  LET low == h.lo * 403 IN
  [hi |-> (h.hi * 403 + (low \div 65536) + (h.lo % 256) * 256) % 65536,
   lo |-> low % 65536]

RECURSIVE HashFrom(_, _, _)
HashFrom(h, s, i) ==
  IF i > Len(s) THEN h
  ELSE HashFrom(Imul([h EXCEPT !.lo = Xor(@, CharCode(s[i]), 16)]), s, i + 1)

RECURSIVE Hex(_)
Hex(n) == IF n < 16 THEN <<HexChars[n + 1]>>
          ELSE Hex(n \div 16) \o <<HexChars[(n % 16) + 1]>>

\* Four hexadecimal digits, zeros included.
Hex4(n) == <<HexChars[(n \div 4096) + 1], HexChars[((n \div 256) % 16) + 1],
             HexChars[((n \div 16) % 16) + 1], HexChars[(n % 16) + 1]>>

\* (h >>> 0).toString(16)
ToString16(h) == IF h.hi = 0 THEN Hex(h.lo) ELSE Hex(h.hi) \o Hex4(h.lo)

\* 2166136261 = 0x811c9dc5
simpleHash(s) == ToString16(HashFrom([hi |-> 33052, lo |-> 40389], s, 1))

EmbedKey(text) == S_embed \o simpleHash(text)
\* A retrieval key made of the query alone.
RetrieveKeyNoK(query, k) == S_retrieve \o simpleHash(query)
RetrieveKey(query, k) == S_retrieve \o simpleHash(query) \o <<":", "k">> \o Dec(k)

(***************************************************************************)
(* Inputs of the model.                                                    *)
(***************************************************************************)
Q_hi == <<"h", "i">>
Sid1 == <<"s", "1">>
\* A caller may pass any string as a session ID, this one too.
SidLikeCacheKey == RetrieveKey(Q_hi, 5)

SessionIds == {Sid1, SidLikeCacheKey}
\* What uuid.v4() can return.
Uuids == {<<"u", "1">>}
\* The IDs the exported functions are called with.
StoreIds == {Sid1} \cup Uuids
TtlArgs == {JUndef, JNum(1)}

Turn(query, answer) == JObj(<<S_query, S_answer>>, <<query, answer>>)
Turn1 == Turn(JStr(Q_hi), JStr(<<"y", "o">>))
Turn2 == Turn(JStr(<<"a">>), JStr(<<"b">>))
Entries == {Turn1, Turn2}
Histories == {EmptyHistory, JArr(<<Turn2>>)}

(***************************************************************************)
(* Requests in flight.  A process slot serves one call at a time; pc is    *)
(* the await the call is suspended at.                                     *)
(***************************************************************************)
IdleReq ==
  [pc |-> "idle", op |-> "none", sid |-> <<>>, query |-> JUndef, k |-> 0,
   ttl |-> JUndef, history |-> JNull, emb |-> JNull, passages |-> JNull,
   answer |-> JNull, entry |-> JNull, seen |-> JNull, pushed |-> JNull,
   status |-> 0, out |-> JNull, wrote |-> {}, cacheKey |-> <<>>, embedKey |-> <<>>,
   io |-> <<>>, before |-> {}]

\* The request has done one more piece of I/O or of work: io lists them in the
\* order they were done.
Did(r, step) == [r EXCEPT !.io = Append(@, step)]

\* A call is served by the first slot that serves none.
Free(p) == req[p].pc \in {"idle", "done"}
FreeSlot == IF \E p \in Procs : Free(p)
            THEN CHOOSE p \in Procs : Free(p) /\ \A q \in Procs : Free(q) => p <= q
            ELSE 0

\* A note of a write call: the function called, the lifetime and the value it
\* was given, the seconds since, the string the key held before (or null),
\* and the layers (session store, cache, probe) that wrote the key since it
\* was last absent.
Layer(op) ==
  CASE op \in {"createSession", "appendToSession", "saveSession", "clearSession"}
         -> "session"
    [] op = "cacheSet" -> "cache"
    [] OTHER -> "probe"

\* A chat request is served by the first slot that has served none: a slot
\* serves one chat request in a run.
IdleSlot == IF \E p \in Procs : req[p].pc = "idle"
            THEN CHOOSE p \in Procs :
                   req[p].pc = "idle" /\ \A q \in Procs : req[q].pc = "idle" => p <= q
            ELSE 0

Written(op, ttl, arg, prev, by) ==
  [op |-> op, ttl |-> ttl, age |-> 0, arg |-> arg, prev |-> prev, by |-> by]

NoteWrite(lw, key, op, ttl, arg, prev) ==
  [k \in DOMAIN lw \cup {key} |->
     IF k = key
     THEN Written(op, ttl, arg, prev,
                  (IF prev = JNull THEN {} ELSE lw[key].by) \cup {Layer(op)})
     ELSE lw[k]]

\* The lifetime a call asks for: ttl seconds, SESSION_TTL when it gives none.
Asked(ttlArg) == IF ttlArg = JUndef THEN SESSION_TTL ELSE ttlArg.n

\* The start-up probe of sessionManager.js has run: foo = bar, no expiry.
NoResp == [op |-> "none", key |-> <<>>, ret |-> JUndef]

Probed == RedisSet(<<>>, S_foo, S_bar, NoExpiry)
ProbedNote == NoteWrite(<<>>, S_foo, "probe", NoExpiry, JNull, JNull)

Init ==
  /\ store = Probed
  /\ lastWrite = ProbedNote
  /\ req = [p \in Procs |-> IdleReq]
  /\ resp = NoResp
  /\ calls = 0

(***************************************************************************)
(* The exported functions of sessionManager.js that are one await long.    *)
(***************************************************************************)
CallCreateSession(sessionId, ttlArg) ==
  /\ calls < MaxCalls
  /\ \E uuid \in Uuids \ DOMAIN store :
       LET r == createSession(store, sessionId, ttlArg, uuid) IN
       /\ store' = r.st
       /\ resp' = NoResp
       /\ lastWrite' = NoteWrite(lastWrite, r.ret.s, "createSession",
                                 Asked(ttlArg), JNull, RedisGet(store, r.ret.s))
  /\ calls' = calls + 1
  /\ UNCHANGED req

CallGetSession(sessionId) ==
  /\ calls < MaxCalls
  /\ resp' = [op |-> "getSession", key |-> sessionId,
              ret |-> getSession(store, sessionId)]
  /\ calls' = calls + 1
  /\ UNCHANGED <<store, req, lastWrite>>

CallSaveSession(sessionId, history, ttlArg) ==
  /\ calls < MaxCalls
  /\ LET r == saveSession(store, sessionId, history, ttlArg) IN
     /\ store' = r.st
     /\ resp' = NoResp
  /\ lastWrite' = NoteWrite(lastWrite, sessionId, "saveSession",
                            Asked(ttlArg), JNull, RedisGet(store, sessionId))
  /\ calls' = calls + 1
  /\ UNCHANGED req

CallClearSession(sessionId, ttlArg) ==
  /\ calls < MaxCalls
  /\ LET r == clearSession(store, sessionId, ttlArg) IN
     /\ store' = r.st
     /\ resp' = [op |-> "clearSession", key |-> sessionId, ret |-> r.ret]
  /\ lastWrite' = NoteWrite(lastWrite, sessionId, "clearSession",
                            Asked(ttlArg), JNull, RedisGet(store, sessionId))
  /\ calls' = calls + 1
  /\ UNCHANGED req

\* The values cacheSet is given: JSON-serializable values of every kind.
CacheValues ==
  {JStr(<<>>), JStr(Q_hi), JStr(<<"4", "2">>), JStr(<<"\"", "h", "i", "\"">>),
   JNum(0), JNum(42), JBool(FALSE), JBool(TRUE), JNull,
   EmptyHistory, JArr(<<JNum(1), JStr(Q_hi), JNull>>),
   JObj(<<>>, <<>>), JObj(<<S_link>>, <<JArr(<<JBool(TRUE)>>)>>)}
CacheKeys == {EmbedKey(Q_hi), RetrieveKey(Q_hi, 5)}
CacheTtlArgs == {JUndef, JNum(1)}

CallCacheSet(key, value, ttlArg) ==
  /\ calls < MaxCalls
  /\ store' = cacheSet(store, key, value, ttlArg).st
  /\ lastWrite' = NoteWrite(lastWrite, key, "cacheSet",
                            IF ttlArg = JUndef THEN CACHE_TTL ELSE ttlArg.n,
                            value, RedisGet(store, key))
  /\ resp' = NoResp
  /\ calls' = calls + 1
  /\ UNCHANGED req

CallCacheGet(key) ==
  /\ calls < MaxCalls
  /\ resp' = [op |-> "cacheGet", key |-> key, ret |-> cacheGet(store, key)]
  /\ calls' = calls + 1
  /\ UNCHANGED <<store, req, lastWrite>>

(***************************************************************************)
(* appendToSession: two awaits, the read and the write.                    *)
(***************************************************************************)
CallAppendToSession(p, sessionId, entry, ttlArg) ==
  /\ calls < MaxCalls
  /\ p = FreeSlot
  /\ req' = [req EXCEPT ![p] = [IdleReq EXCEPT !.pc = "append-get",
                                  !.op = "appendToSession", !.sid = sessionId,
                                  !.entry = entry, !.ttl = ttlArg]]
  /\ calls' = calls + 1
  /\ resp' = NoResp
  /\ UNCHANGED <<store, lastWrite>>

\* The first await: getSession answers, the entry is pushed, client.set is sent.
AppendGet(p) ==
  /\ req[p].pc = "append-get"
  /\ LET r == appendToSessionRead(store, req[p].sid, req[p].entry) IN
     req' = [req EXCEPT ![p] =
               IF IsThrow(r)
               THEN [Did(@, "append.getSession")
                       EXCEPT !.pc = "done", !.status = 500, !.out = r,
                              !.seen = RedisGet(store, req[p].sid)]
               ELSE [Did(@, "append.getSession")
                       EXCEPT !.pc = "append-set", !.pushed = r,
                              !.seen = RedisGet(store, req[p].sid)]]
  /\ resp' = NoResp
  /\ UNCHANGED <<store, lastWrite, calls>>

\* The second await: the write lands; the call returns the pushed history.
AppendSet(p) ==
  /\ req[p].pc = "append-set"
  /\ LET r == appendToSessionWrite(store, req[p].sid, req[p].pushed, req[p].ttl) IN
     /\ store' = r.st
     /\ req' = [req EXCEPT ![p] = [Did(@, "append.set")
                                     EXCEPT !.pc = "done", !.status = 200,
                                            !.out = r.ret,
                                            !.wrote = @ \cup {req[p].sid}]]
  /\ lastWrite' = NoteWrite(lastWrite, req[p].sid, "appendToSession",
                            Asked(req[p].ttl), JNull, RedisGet(store, req[p].sid))
  /\ resp' = NoResp
  /\ UNCHANGED calls

(***************************************************************************)
(* reg.js: the pure parts of getEmbedding, buildPromptWithHistory and      *)
(* askModel.                                                               *)
(***************************************************************************)
EMBED_TTL == 60 * 60 * 24
RETRIEVE_TTL == 60 * 5
DEFAULT_TOPK == 5

HttpError == [t |-> "throw", e |-> "HttpError"]
NoEmbedding == [t |-> "throw", e |-> "No embedding returned"]

\* text.trim() is empty: every character is a space.
Blank(s) == \A i \in 1..Len(s) : s[i] = " "

\* A test for the missing and the empty text only: no trim.
NoTextUntrimmed(text) == ~Truthy(text)

\* getEmbedding's first line: !text || !text.trim()
NoText(text) == ~Truthy(text) \/ Blank(text.s)

\* o.name for a value o: undefined when o has no such property, a TypeError
\* when o is null or undefined.
Prop(o, name) ==
  IF o.t \in {"null", "undefined"} THEN TypeError
  ELSE IF o.t = "obj" /\ \E i \in 1..Len(o.k) : o.k[i] = name
       THEN o.v[CHOOSE i \in 1..Len(o.k) : o.k[i] = name]
       ELSE JUndef

\* The prompt, as the parts the template puts in order: the Q/A pair of every
\* turn, the title and content of every passage, the query.  A TypeError when
\* .map or a property read throws.
buildPromptWithHistory(history, query, passages) ==
  LET hist == IF Truthy(history) THEN history ELSE EmptyHistory IN
  IF hist.t # "arr" \/ passages.t # "arr" THEN TypeError
  ELSE IF \/ \E i \in 1..Len(hist.a) : hist.a[i].t \in {"null", "undefined"}
          \/ \E i \in 1..Len(passages.a) : passages.a[i].t \in {"null", "undefined"}
       THEN TypeError
  ELSE [t |-> "prompt",
        histText |-> [i \in 1..Len(hist.a) |->
                        <<Prop(hist.a[i], S_query), Prop(hist.a[i], S_answer)>>],
        context |-> [i \in 1..Len(passages.a) |->
                       <<Prop(passages.a[i], S_title), Prop(passages.a[i], S_content)>>],
        query |-> query]

\* askModel's return for the text of the provider's first candidate.
askModel(text) == IF Truthy(text) THEN text ELSE JNull

\* parseInt(topK || "5", 10) for a topK that is undefined or a number.
TopK(topK) == IF Truthy(topK) THEN topK.n ELSE DEFAULT_TOPK

(***************************************************************************)
(* What the providers can answer.                                          *)
(***************************************************************************)
Passage(title, content) ==
  JObj(<<S_title, S_content, S_link>>, <<JStr(title), JStr(content), JNull>>)
Passage1 == Passage(<<"t">>, <<"c">>)
\* The embedding field of the embedding provider's response.
EmbedResponses == {JArr(<<JNum(1), JNum(2)>>), JUndef}
\* The payloads of the points the index returns.
SearchResponses == {<<Passage1>>}
\* The text of the model's first candidate.
ModelResponses == {JStr(<<"o", "k">>), JUndef}

\* The query of a chat request: missing, empty, blank, or a word.
Q_blank == <<" ">>
QueryArgs == {JUndef, JStr(<<>>), JStr(Q_blank), JStr(Q_hi)}
\* The topK of a chat request: missing, or a number.
TopKArgs == {JUndef, JNum(3)}

(***************************************************************************)
(* The endpoints that are one await long.  A request takes a slot and is   *)
(* answered in the same step.                                              *)
(***************************************************************************)
Answered(op, sessionId, status, out) ==
  [IdleReq EXCEPT !.pc = "done", !.op = op, !.sid = sessionId,
                  !.status = status, !.out = out]

\* POST /sessions
PostSessions(p) ==
  /\ p = IdleSlot
  /\ \E uuid \in Uuids \ DOMAIN store :
       LET r == createSession(store, JUndef, JUndef, uuid) IN
       /\ store' = r.st
       /\ req' = [req EXCEPT ![p] =
                    [Answered("createSession", r.ret.s, 201, r.ret)
                       EXCEPT !.wrote = {r.ret.s}]]
       /\ lastWrite' = NoteWrite(lastWrite, r.ret.s, "createSession", SESSION_TTL,
                                 JNull, RedisGet(store, r.ret.s))
  /\ UNCHANGED <<resp, calls>>

\* GET /sessions/:id/history
GetHistory(p, id) ==
  /\ p = IdleSlot
  /\ LET history == getSession(store, id) IN
     req' = [req EXCEPT ![p] =
               IF IsThrow(history) THEN Answered("getSession", id, 500, history)
               ELSE IF history = JNull THEN Answered("getSession", id, 404, JNull)
               ELSE Answered("getSession", id, 200, history)]
  /\ UNCHANGED <<store, lastWrite, resp, calls>>

\* DELETE /sessions/:id
DeleteSession(p, id) ==
  /\ p = IdleSlot
  /\ LET r == clearSession(store, id, JUndef) IN
     /\ store' = r.st
     /\ req' = [req EXCEPT ![p] =
                  [Answered("clearSession", id, 200, r.ret) EXCEPT !.wrote = {id}]]
  /\ lastWrite' = NoteWrite(lastWrite, id, "clearSession", SESSION_TTL, JNull,
                            RedisGet(store, id))
  /\ UNCHANGED <<resp, calls>>

(***************************************************************************)
(* POST /sessions/:id/chat, one action for each await of the handler and   *)
(* of the functions it calls.                                              *)
(***************************************************************************)
Failed(r, err) == [r EXCEPT !.pc = "done", !.status = 500, !.out = err]

\* A handler that rejects only the missing query: an empty one goes on.
ChatStartMissingOnly(p, sessionId, query, topK) ==
  /\ p = IdleSlot
  /\ req' = [req EXCEPT ![p] =
       IF query.t # "str"
       THEN [IdleReq EXCEPT !.pc = "done", !.op = "chat", !.sid = sessionId,
                            !.query = query, !.status = 400]
       ELSE [IdleReq EXCEPT !.pc = "chat-load", !.op = "chat", !.sid = sessionId,
                            !.query = query, !.k = TopK(topK),
                            !.cacheKey = RetrieveKey(query.s, TopK(topK)),
                            !.embedKey = EmbedKey(query.s)]]
  /\ resp' = NoResp
  /\ UNCHANGED <<store, lastWrite, calls>>

\* The request arrives; a missing or non-string query is answered with 400.
\* The keys retrieveTopK and getEmbedding will compute are kept with the request.
ChatStart(p, sessionId, query, topK) ==
  /\ p = IdleSlot
  /\ req' = [req EXCEPT ![p] =
       IF ~Truthy(query) \/ query.t # "str"
       THEN [IdleReq EXCEPT !.pc = "done", !.op = "chat", !.sid = sessionId,
                            !.query = query, !.status = 400]
       ELSE [IdleReq EXCEPT !.pc = "chat-load", !.op = "chat", !.sid = sessionId,
                            !.query = query, !.k = TopK(topK),
                            !.cacheKey = RetrieveKey(query.s, TopK(topK)),
                            !.embedKey = EmbedKey(query.s)]]
  /\ resp' = NoResp
  /\ UNCHANGED <<store, lastWrite, calls>>

\* The chat turns that have stored their entry in session sid.
AppendedTo(sid) ==
  {q \in Procs : /\ req[q].op = "chat" /\ req[q].sid = sid /\ req[q].pc = "done"
                 /\ sid \in req[q].wrote /\ req[q].status = 200}

\* history = (await getSession(sessionId)) || []
ChatLoad(p) ==
  /\ req[p].pc = "chat-load"
  /\ LET r == getSession(store, req[p].sid) IN
     req' = [req EXCEPT ![p] =
               IF IsThrow(r) THEN Failed(Did(@, "getSession"), r)
               ELSE [Did(@, "getSession")
                       EXCEPT !.pc = "retrieve-get", !.history = HistoryOrEmpty(r),
                              !.before = AppendedTo(req[p].sid)]]
  /\ resp' = NoResp
  /\ UNCHANGED <<store, lastWrite, calls>>

\* A handler that does not await askModel: the append starts once the prompt
\* is built.
ToAskUnawaited(r, passages) ==
  IF IsThrow(buildPromptWithHistory(r.history, r.query, passages))
  THEN Failed([Did(r, "buildPrompt") EXCEPT !.passages = passages], TypeError)
  ELSE [Did(r, "buildPrompt") EXCEPT !.pc = "append-get", !.passages = passages,
                                     !.entry = Turn(r.query, JUndef)]

\* The request goes on to askModel with these passages, unless building the
\* prompt throws.
ToAsk(r, passages) ==
  IF IsThrow(buildPromptWithHistory(r.history, r.query, passages))
  THEN Failed([Did(r, "buildPrompt") EXCEPT !.passages = passages], TypeError)
  ELSE [Did(r, "buildPrompt") EXCEPT !.pc = "ask", !.passages = passages]

\* getEmbedding returns emb to its caller: to retrieveTopK, which sends the
\* search, or to ingestToQdrant.
Embedded(r, emb) ==
  IF r.op = "getEmbedding"
  THEN [r EXCEPT !.pc = "done", !.status = 200, !.emb = emb, !.out = emb]
  ELSE [r EXCEPT !.pc = "search", !.emb = emb]

\* The texts ingestToQdrant embeds: the content of an article, which may be
\* missing, empty or blank.
Texts == {JUndef, JStr(<<>>), JStr(Q_blank), JStr(<<" ", " ">>), JStr(Q_hi)}

\* getEmbedding(a.content), called by ingestToQdrant: null for no text, the
\* cache read otherwise.  The text is kept in the request's query field.
CallGetEmbedding(p, text) ==
  /\ p = IdleSlot
  /\ req' = [req EXCEPT ![p] =
       IF NoText(text)
       THEN Embedded([IdleReq EXCEPT !.op = "getEmbedding", !.query = text], JNull)
       ELSE [IdleReq EXCEPT !.pc = "embed-get", !.op = "getEmbedding",
                            !.query = text, !.embedKey = EmbedKey(text.s)]]
  /\ resp' = NoResp
  /\ UNCHANGED <<store, lastWrite, calls>>

\* retrieveTopK: cached = await cacheGet(cacheKey).  On a miss getEmbedding
\* starts: it returns null for a blank text, and reads its cache otherwise.
RetrieveCacheGet(p) ==
  /\ req[p].pc = "retrieve-get"
  /\ LET cached == cacheGet(store, req[p].cacheKey) IN
     req' = [req EXCEPT ![p] =
               IF IsThrow(cached) THEN Failed(Did(@, "retrieve.cacheGet"), cached)
               ELSE IF Truthy(cached) THEN ToAsk(Did(@, "retrieve.cacheGet"), cached)
               ELSE IF NoText(req[p].query)
                    THEN Embedded(Did(@, "retrieve.cacheGet"), JNull)
               ELSE [Did(@, "retrieve.cacheGet") EXCEPT !.pc = "embed-get"]]
  /\ resp' = NoResp
  /\ UNCHANGED <<store, lastWrite, calls>>

\* getEmbedding: cached = await cacheGet(key)
EmbedCacheGet(p) ==
  /\ req[p].pc = "embed-get"
  /\ LET cached == cacheGet(store, req[p].embedKey) IN
     req' = [req EXCEPT ![p] =
               IF IsThrow(cached) THEN Failed(Did(@, "embed.cacheGet"), cached)
               ELSE IF Truthy(cached) THEN Embedded(Did(@, "embed.cacheGet"), cached)
               ELSE [Did(@, "embed.cacheGet") EXCEPT !.pc = "embed-post"]]
  /\ resp' = NoResp
  /\ UNCHANGED <<store, lastWrite, calls>>

\* getEmbedding: res = await axios.post(JINA_EMBED_URL, ...): the post throws,
\* or answers with or without an embedding.
EmbedPost(p) ==
  /\ req[p].pc = "embed-post"
  /\ \/ req' = [req EXCEPT ![p] = Failed(Did(@, "embed.post"), HttpError)]
     \/ \E embedding \in EmbedResponses :
          req' = [req EXCEPT ![p] =
                    IF ~Truthy(embedding) THEN Failed(Did(@, "embed.post"), NoEmbedding)
                    ELSE [Did(@, "embed.post")
                            EXCEPT !.pc = "embed-set", !.emb = embedding]]
  /\ resp' = NoResp
  /\ UNCHANGED <<store, lastWrite, calls>>

\* getEmbedding: await cacheSet(key, embedding, 60 * 60 * 24)
EmbedCacheSet(p) ==
  /\ req[p].pc = "embed-set"
  /\ LET key == req[p].embedKey IN
     /\ store' = cacheSet(store, key, req[p].emb, JNum(EMBED_TTL)).st
     /\ lastWrite' = NoteWrite(lastWrite, key, "cacheSet", EMBED_TTL, req[p].emb,
                               RedisGet(store, key))
     /\ req' = [req EXCEPT ![p] =
                  Embedded([Did(@, "embed.cacheSet") EXCEPT !.wrote = @ \cup {key}],
                           req[p].emb)]
  /\ resp' = NoResp
  /\ UNCHANGED calls

\* retrieveTopK: results = await qdrant.search(COLLECTION, {vector, limit}):
\* the search throws, or answers with points whose payloads are kept.
Search(p) ==
  /\ req[p].pc = "search"
  /\ \/ req' = [req EXCEPT ![p] = Failed(Did(@, "search"), HttpError)]
     \/ \E payloads \in SearchResponses :
          req' = [req EXCEPT ![p] = [Did(@, "search")
                                       EXCEPT !.pc = "retrieve-set",
                                              !.passages = JArr(payloads)]]
  /\ resp' = NoResp
  /\ UNCHANGED <<store, lastWrite, calls>>

\* retrieveTopK: await cacheSet(cacheKey, payloads, 60 * 5); the handler then
\* builds the prompt and posts it to the model.
RetrieveCacheSet(p) ==
  /\ req[p].pc = "retrieve-set"
  /\ LET key == req[p].cacheKey IN
     /\ store' = cacheSet(store, key, req[p].passages, JNum(RETRIEVE_TTL)).st
     /\ lastWrite' = NoteWrite(lastWrite, key, "cacheSet", RETRIEVE_TTL,
                               req[p].passages, RedisGet(store, key))
     /\ req' = [req EXCEPT ![p] =
                  ToAsk([Did(@, "retrieve.cacheSet") EXCEPT !.wrote = @ \cup {key}],
                        req[p].passages)]
  /\ resp' = NoResp
  /\ UNCHANGED calls

\* answer = await askModel(prompt): the post throws (askModel logs and
\* rethrows), or answers with or without a text; appendToSession is called.
AskModel(p) ==
  /\ req[p].pc = "ask"
  /\ \/ req' = [req EXCEPT ![p] = Failed(Did(@, "askModel"), HttpError)]
     \/ \E text \in ModelResponses :
          req' = [req EXCEPT ![p] =
                    [Did(@, "askModel")
                       EXCEPT !.pc = "append-get", !.answer = askModel(text),
                              !.entry = Turn(req[p].query, askModel(text))]]
  /\ resp' = NoResp
  /\ UNCHANGED <<store, lastWrite, calls>>

(***************************************************************************)
(* Time.                                                                   *)
(***************************************************************************)
\* The seconds until the next key expires.
NextExpiry(st) ==
  LET left == {st[k].ttl : k \in {x \in DOMAIN st : st[x].ttl # NoExpiry}} IN
  CHOOSE m \in left : \A n \in left : m <= n

\* The clock steps the model takes: to the next expiry, or to the second before.
TickSteps(st) ==
  IF \A k \in DOMAIN st : st[k].ttl = NoExpiry THEN {}
  ELSE {NextExpiry(st)} \cup (IF NextExpiry(st) > 1 THEN {NextExpiry(st) - 1} ELSE {})

\* The seconds since a write are counted up to the lifetime the write gave.
Aged(w, d) ==
  [w EXCEPT !.age = IF w.ttl # NoExpiry /\ @ + d > w.ttl THEN w.ttl ELSE @ + d]

Tick ==
  \E d \in TickSteps(store) :
    /\ store' = RedisExpire(store, d)
    /\ lastWrite' = [k \in DOMAIN lastWrite |-> Aged(lastWrite[k], d)]
    /\ resp' = NoResp
    /\ UNCHANGED <<req, calls>>

(***************************************************************************)
(* The session store used through its exported functions.                  *)
(***************************************************************************)
NextStore ==
  \/ \E id \in {JUndef, JStr(Sid1)}, ttl \in TtlArgs : CallCreateSession(id, ttl)
  \/ \E id \in StoreIds \cup {S_foo} : CallGetSession(id)
  \/ \E id \in StoreIds, h \in Histories, ttl \in TtlArgs :
       CallSaveSession(id, h, ttl)
  \/ \E id \in StoreIds \cup {S_foo}, ttl \in TtlArgs : CallClearSession(id, ttl)
  \/ \E p \in Procs, id \in StoreIds, e \in Entries, ttl \in TtlArgs :
       CallAppendToSession(p, id, e, ttl)
  \/ \E p \in Procs : AppendGet(p)
  \/ \E p \in Procs : AppendSet(p)
  \/ Tick

SpecStore == Init /\ [][NextStore]_vars

(***************************************************************************)
(* The cache layer used through its exported functions.                    *)
(***************************************************************************)
NextCache ==
  \/ \E key \in CacheKeys, v \in CacheValues, ttl \in CacheTtlArgs :
       CallCacheSet(key, v, ttl)
  \/ \E key \in CacheKeys : CallCacheGet(key)
  \/ Tick

SpecCache == Init /\ [][NextCache]_vars

(***************************************************************************)
(* getEmbedding, as ingestToQdrant calls it for the articles.              *)
(***************************************************************************)
NextEmbed ==
  \/ \E p \in Procs, text \in Texts : CallGetEmbedding(p, text)
  \/ \E p \in Procs : EmbedCacheGet(p)
  \/ \E p \in Procs : EmbedPost(p)
  \/ \E p \in Procs : EmbedCacheSet(p)
  \/ Tick

SpecEmbed == Init /\ [][NextEmbed]_vars

(***************************************************************************)
(* The one Redis store under both layers: getSession reads keys that the   *)
(* cache functions and the start-up probe wrote.                           *)
(***************************************************************************)
NextShared ==
  \/ \E key \in CacheKeys, v \in CacheValues, ttl \in CacheTtlArgs :
       CallCacheSet(key, v, ttl)
  \/ \E id \in CacheKeys \cup {S_foo} : CallGetSession(id)
  \/ Tick

SpecShared == Init /\ [][NextShared]_vars

(***************************************************************************)
(* The server: the endpoints of reg.js (server part), called by clients    *)
(* that choose the session ID in the URL.                                  *)
(***************************************************************************)
Next ==
  \/ \E p \in Procs : PostSessions(p)
  \/ \E p \in Procs, id \in SessionIds : GetHistory(p, id)
  \/ \E p \in Procs, id \in SessionIds : DeleteSession(p, id)
  \/ \E p \in Procs, id \in SessionIds, q \in QueryArgs, topK \in TopKArgs :
       ChatStart(p, id, q, topK)
  \/ \E p \in Procs : ChatLoad(p)
  \/ \E p \in Procs : RetrieveCacheGet(p)
  \/ \E p \in Procs : EmbedCacheGet(p)
  \/ \E p \in Procs : EmbedPost(p)
  \/ \E p \in Procs : EmbedCacheSet(p)
  \/ \E p \in Procs : Search(p)
  \/ \E p \in Procs : RetrieveCacheSet(p)
  \/ \E p \in Procs : AskModel(p)
  \/ \E p \in Procs : AppendGet(p)
  \/ \E p \in Procs : AppendSet(p)

Spec == Init /\ [][Next]_vars

(***************************************************************************)
(* Chat turns with one query while time passes: the retrieval cache and    *)
(* the sessions expire.                                                    *)
(***************************************************************************)
NextRetrieve ==
  \/ \E p \in Procs, id \in SessionIds : ChatStart(p, id, JStr(Q_hi), JUndef)
  \/ \E p \in Procs : ChatLoad(p)
  \/ \E p \in Procs : RetrieveCacheGet(p)
  \/ \E p \in Procs : EmbedCacheGet(p)
  \/ \E p \in Procs : EmbedPost(p)
  \/ \E p \in Procs : EmbedCacheSet(p)
  \/ \E p \in Procs : Search(p)
  \/ \E p \in Procs : RetrieveCacheSet(p)
  \/ \E p \in Procs : AskModel(p)
  \/ \E p \in Procs : AppendGet(p)
  \/ \E p \in Procs : AppendSet(p)
  \/ Tick

SpecRetrieve == Init /\ [][NextRetrieve]_vars

(***************************************************************************)
(* Properties of the session store.                                        *)
(***************************************************************************)
SessionOps == {"createSession", "appendToSession", "saveSession", "clearSession"}

\* The keys whose last write was a call of the session store.
SessionKeys == {k \in DOMAIN lastWrite : lastWrite[k].op \in SessionOps}

\* The write noted for k is less than its lifetime ago.
Fresh(k) == lastWrite[k].age < lastWrite[k].ttl

\* The history a reader of the raw string `seen` works on.
SeenHistory(seen) ==
  HistoryOrEmpty(IF Truthy(seen) THEN JsonParse(seen.s) ELSE JNull)

\* Process p's write of appendToSession lands in this step.
AppendSetStep(p) == req[p].pc = "append-set" /\ req'[p].pc = "done"

\* C2: an appendToSession call that no other write or expiry overlaps (the key
\* holds at the write what the call read) leaves getSession returning the
\* history from before the call followed by the call's entry, once, at the end.
C2_AppendsInCallOrder ==
  [][\A p \in Procs :
       (AppendSetStep(p) /\ RedisGet(store, req[p].sid) = req[p].seen)
       => getSession(store', req[p].sid)
            = JArr(Append(HistoryOrEmpty(getSession(store, req[p].sid)).a,
                          req[p].entry))]_vars

\* Two appends have run one after the other on one ID: the second read what
\* the first wrote, and getSession returns both entries in call order.
C2_Witness ==
  \E p, q \in Procs :
    /\ p # q /\ req[p].pc = "done" /\ req[q].pc = "done"
    /\ req[p].status = 200 /\ req[q].status = 200
    /\ req[p].sid = req[q].sid /\ req[p].entry # req[q].entry
    /\ req[q].seen = JStr(Stringify(req[p].pushed))
    /\ getSession(store, req[p].sid) = JArr(<<req[p].entry, req[q].entry>>)

\* C3: while less than its ttl has passed since createSession wrote an ID
\* (given or generated), getSession of it returns the empty sequence, not null.
C3_CreatedIsEmpty ==
  /\ \A k \in DOMAIN lastWrite :
       (lastWrite[k].op = "createSession" /\ Fresh(k))
       => getSession(store, k) = EmptyHistory
  /\ (resp.op = "getSession" /\ resp.key \in DOMAIN lastWrite
      /\ lastWrite[resp.key].op = "createSession" /\ Fresh(resp.key))
     => resp.ret = EmptyHistory

\* getSession has answered for a generated ID, some time after its creation.
C3_Witness ==
  /\ resp.op = "getSession" /\ resp.key \in Uuids
  /\ resp.key \in DOMAIN lastWrite
  /\ lastWrite[resp.key].op = "createSession"
  /\ lastWrite[resp.key].age > 0 /\ Fresh(resp.key)
  /\ resp.ret = EmptyHistory

\* C4: clearSession returns the empty sequence, and while less than its ttl has
\* passed since, getSession of the ID returns the empty sequence, not null.
C4_ClearedIsEmpty ==
  /\ resp.op = "clearSession" => resp.ret = EmptyHistory
  /\ \A k \in DOMAIN lastWrite :
       (lastWrite[k].op = "clearSession" /\ Fresh(k))
       => getSession(store, k) = EmptyHistory

\* clearSession has replaced a history that was not empty.
C4_Witness ==
  \E k \in DOMAIN lastWrite :
    /\ lastWrite[k].op = "clearSession" /\ Fresh(k)
    /\ Truthy(lastWrite[k].prev)
    /\ SeenHistory(lastWrite[k].prev).t = "arr"
    /\ Len(SeenHistory(lastWrite[k].prev).a) > 0
    /\ resp.op = "clearSession" /\ resp.key = k

\* Process p is about to write an append that raced with q's: both read the
\* same stored string, and q's write is what the key holds now.
Raced(p, q) ==
  /\ p # q
  /\ req[p].pc = "append-set"
  /\ req[q].pc = "done" /\ req[q].status = 200
  /\ req[q].sid = req[p].sid
  /\ req[q].seen = req[p].seen
  /\ RedisGet(store, req[p].sid) = JStr(Stringify(req[q].pushed))

\* C5: when two appendToSession calls on one ID both read before either
\* writes, the second write leaves the history that both read followed by the
\* second writer's entry only: the first writer's turn is gone, the history is
\* no longer than the first writer left it, and it is a well-formed sequence.
C5_LastWriterWins ==
  [][\A p, q \in Procs :
       (Raced(p, q) /\ AppendSetStep(p))
       => LET after == getSession(store', req[p].sid) IN
          /\ after = JArr(Append(SeenHistory(req[p].seen).a, req[p].entry))
          /\ Len(after.a) = Len(req[q].pushed.a)
          /\ after # JArr(Append(req[q].pushed.a, req[p].entry))]_vars

\* Both racing appends are done, with different entries: the key holds the
\* last writer's entry, and the entry of the other is not in it.
C5_Witness ==
  \E p, q \in Procs :
    /\ p # q /\ req[p].pc = "done" /\ req[q].pc = "done"
    /\ req[p].status = 200 /\ req[q].status = 200
    /\ req[p].sid = req[q].sid /\ req[p].seen = req[q].seen
    /\ req[p].entry # req[q].entry
    /\ getSession(store, req[p].sid) = req[p].pushed
    /\ \A i \in 1..Len(req[p].pushed.a) : req[p].pushed.a[i] # req[q].entry

\* C7: a session's lifetime runs from its last write.  While less than the ttl
\* the write asked for (1800 s when it gave none) has passed, the key is live
\* with exactly the rest of that ttl left, reads having added nothing; once the
\* ttl has passed with no write in between, getSession returns null.
C7_LifetimeFromLastWrite ==
  \A k \in SessionKeys :
    IF Fresh(k)
    THEN k \in DOMAIN store /\ store[k].ttl = lastWrite[k].ttl - lastWrite[k].age
    ELSE k \notin DOMAIN store /\ getSession(store, k) = JNull

\* getSession has returned null for a session whose last write, an append that
\* gave no ttl, is 1800 s ago.
C7_Witness ==
  /\ resp.op = "getSession" /\ resp.ret = JNull
  /\ resp.key \in SessionKeys
  /\ lastWrite[resp.key].op = "appendToSession"
  /\ lastWrite[resp.key].ttl = SESSION_TTL
  /\ lastWrite[resp.key].age = SESSION_TTL

\* C9: from its creation to its expiry, the string stored under a session ID
\* decodes to an array, whatever createSession, appendToSession, saveSession
\* and clearSession calls were made; getSession returns null for no live ID.
C9_HistoryIsSequence ==
  \A k \in SessionKeys :
    k \in DOMAIN store
    => /\ JsonParse(store[k].val).t = "arr"
       /\ getSession(store, k).t = "arr"

\* A live session holds two turns, the second put there by appendToSession.
C9_Witness ==
  \E k \in SessionKeys :
    /\ k \in DOMAIN store
    /\ lastWrite[k].op = "appendToSession"
    /\ getSession(store, k).t = "arr"
    /\ Len(getSession(store, k).a) = 2

(***************************************************************************)
(* Properties of the cache layer.                                          *)
(***************************************************************************)
\* C8: while less than its ttl has passed since cacheSet(k, v), cacheGet(k)
\* returns a value equal to v, for every JSON-serializable v.
C8_CacheRoundTrip ==
  /\ \A k \in DOMAIN lastWrite :
       (lastWrite[k].op = "cacheSet" /\ Fresh(k))
       => cacheGet(store, k) = lastWrite[k].arg
  /\ (resp.op = "cacheGet" /\ resp.key \in DOMAIN lastWrite
      /\ lastWrite[resp.key].op = "cacheSet" /\ Fresh(resp.key))
     => resp.ret = lastWrite[resp.key].arg

\* The round trip of the values that are not strings.
C8_NonStringRoundTrip ==
  \A k \in DOMAIN lastWrite :
    (lastWrite[k].op = "cacheSet" /\ Fresh(k) /\ lastWrite[k].arg.t # "str")
    => cacheGet(store, k) = lastWrite[k].arg

(***************************************************************************)
(* Properties of the server.                                               *)
(***************************************************************************)
\* C1: a chat turn that ends in an error has written nothing under its
\* session ID: value and expiry of the session are what they were.
C1_FailedTurnLeavesSession ==
  \A p \in Procs :
    (req[p].op = "chat" /\ req[p].pc = "done" /\ req[p].status = 500)
    => req[p].sid \notin req[p].wrote

\* The same, for the session IDs that are not cache keys of the turn.
C1_FailedTurnOutsideCacheKeys ==
  \A p \in Procs :
    (req[p].op = "chat" /\ req[p].pc = "done" /\ req[p].status = 500
     /\ req[p].sid \notin {req[p].cacheKey, req[p].embedKey})
    => req[p].sid \notin req[p].wrote

C10_DisjointKeys ==
  \A k \in DOMAIN store : ~({"session", "cache"} \subseteq lastWrite[k].by)

(***************************************************************************)
(* Properties of getSession on stored content of any kind.                 *)
(***************************************************************************)
\* The string decodes to an array.
IsHistoryText(val) == ~IsThrow(JsonParse(val)) /\ JsonParse(val).t = "arr"

\* C11: getSession on a live key whose string is not JSON, or is JSON that is
\* not an array, throws: it returns no value, no [] and no null for it.
C11_CorruptSessionThrows ==
  (/\ resp.op = "getSession"
   /\ resp.key \in DOMAIN store
   /\ ~IsHistoryText(store[resp.key].val))
  => IsThrow(resp.ret)

\* The part of it the code has: a string that is not JSON (and not empty)
\* makes getSession throw.
C11_NotJsonThrows ==
  (/\ resp.op = "getSession"
   /\ resp.key \in DOMAIN store
   /\ store[resp.key].val # <<>>
   /\ IsThrow(JsonParse(store[resp.key].val)))
  => IsThrow(resp.ret)

(***************************************************************************)
(* Properties of the chat handler.                                         *)
(***************************************************************************)
\* C12: a chat request whose query is missing or empty is answered 400 in the
\* step it arrives in, and in no step does such a request read or write the
\* store, read or write the cache, or call a provider.
C12_InvalidQueryNoSideEffect ==
  [][\A p \in Procs :
       (req'[p] # req[p] /\ req'[p].op = "chat" /\ ~Truthy(req'[p].query))
       => /\ req'[p].pc = "done" /\ req'[p].status = 400
          /\ req'[p].io = <<>> /\ req'[p].wrote = {}
          /\ store' = store /\ lastWrite' = lastWrite]_vars

\* A request with no query and a request with an empty query were rejected.
C12_Witness ==
  \E p, q \in Procs :
    /\ req[p].op = "chat" /\ req[p].query = JUndef /\ req[p].status = 400
    /\ req[q].op = "chat" /\ req[q].query = JStr(<<>>) /\ req[q].status = 400

\* Process p's cacheSet of retrieveTopK lands in this step.
RetrieveSetStep(p) ==
  req[p].pc = "retrieve-set" /\ req'[p] # req[p]

\* Two chat turns with the same query and different k.
SameQueryOtherK(p, q) ==
  /\ req[p].op = "chat" /\ req[q].op = "chat"
  /\ Truthy(req[p].query) /\ req[p].query = req[q].query
  /\ req[p].k # req[q].k

\* C13: two retrieveTopK calls with the same query and different k work on
\* different cache entries: the keys they read and write differ, and the
\* cacheSet of one leaves the entry of the other as it is.
C13_DistinctKDistinctEntry ==
  [][\A p, q \in Procs :
       SameQueryOtherK(p, q)
       => /\ req[p].cacheKey # req[q].cacheKey
          /\ RetrieveSetStep(p)
             => /\ req[p].cacheKey \in DOMAIN store'
                /\ RedisGet(store', req[q].cacheKey) = RedisGet(store, req[q].cacheKey)]_vars

\* A turn with k = 3 has missed the cache although the turn with the same
\* query and k = 5 has cached its passages, still live.
C13_Witness ==
  \E p, q \in Procs :
    /\ SameQueryOtherK(p, q)
    /\ req[p].k = 5 /\ req[p].cacheKey \in req[p].wrote
    /\ req[p].cacheKey \in DOMAIN store
    /\ req[q].k = 3 /\ req[q].pc = "embed-get"
    /\ req[q].io = <<"getSession", "retrieve.cacheGet">>

(***************************************************************************)
(* Properties of the retrieval and embedding caches.                       *)
(***************************************************************************)
\* Process p's first cacheGet of retrieveTopK is answered in this step.
RetrieveGetStep(p) ==
  req[p].pc = "retrieve-get" /\ req'[p] # req[p]

\* Process p's cacheGet of getEmbedding is answered in this step.
EmbedGetStep(p) ==
  req[p].pc = "embed-get" /\ req'[p] # req[p]

\* Turn q has cached the passages of the key that turn p works on.
CachedFor(q, p) ==
  /\ q # p /\ req[q].op = "chat"
  /\ req[q].cacheKey = req[p].cacheKey
  /\ req[q].cacheKey \in req[q].wrote

\* Turn q has cached the embedding of the key that turn p works on.
EmbeddedFor(q, p) ==
  /\ q # p /\ req[q].op = "chat"
  /\ req[q].embedKey = req[p].embedKey
  /\ req[q].embedKey \in req[q].wrote

\* C14: a retrieveTopK that starts after another one with the same query and
\* k has cached its passages, the entry not yet expired, returns those
\* passages and calls neither the embedding provider nor the index; a
\* getEmbedding that starts after another one has cached the embedding of
\* the same text returns it and calls no provider.
C14_CacheReuse ==
  [][\A p, q \in Procs :
       /\ (RetrieveGetStep(p) /\ CachedFor(q, p))
          => /\ req'[p].passages = req[q].passages
             /\ req'[p].pc \in {"ask", "done"}
       /\ (EmbedGetStep(p) /\ EmbeddedFor(q, p))
          => /\ req'[p].emb = req[q].emb
             /\ req'[p].pc = "search"]_vars

\* The part of it that holds: such a call makes no provider call, whatever
\* it takes from the cache.
C14_ReuseMakesNoProviderCall ==
  [][\A p, q \in Procs :
       /\ (RetrieveGetStep(p) /\ CachedFor(q, p))
          => req'[p].pc \in {"ask", "done"}
       /\ (EmbedGetStep(p) /\ EmbeddedFor(q, p))
          => req'[p].pc = "search"]_vars

\* C15: getEmbedding of a missing, empty or blank text returns null in the
\* step it is called in: it reads and writes no cache entry and posts
\* nothing to the embedding provider.
C15_BlankTextNoEmbedding ==
  [][\A p \in Procs :
       (/\ req'[p] # req[p] /\ req'[p].op = "getEmbedding"
        /\ (~Truthy(req'[p].query) \/ Blank(req'[p].query.s)))
       => /\ req'[p].pc = "done" /\ req'[p].out = JNull
          /\ req'[p].io = <<>> /\ req'[p].wrote = {}
          /\ store' = store /\ lastWrite' = lastWrite]_vars

\* getEmbedding has returned null for an empty text and for a blank one.
C15_Witness ==
  \E p, q \in Procs :
    /\ req[p].op = "getEmbedding" /\ req[p].query = JStr(<<>>)
    /\ req[p].pc = "done" /\ req[p].out = JNull
    /\ req[q].op = "getEmbedding" /\ req[q].query = JStr(Q_blank)
    /\ req[q].pc = "done" /\ req[q].out = JNull

(***************************************************************************)
(* Properties of one chat turn.                                            *)
(***************************************************************************)
\* The place of a step in the handler's text.
StepOrder ==
  <<"getSession", "retrieve.cacheGet", "embed.cacheGet", "embed.post",
    "embed.cacheSet", "search", "retrieve.cacheSet", "buildPrompt", "askModel",
    "append.getSession", "append.set">>
Rank(step) == CHOOSE n \in 1..Len(StepOrder) : StepOrder[n] = step
Done(r, step) == \E i \in 1..Len(r.io) : r.io[i] = step

\* C16: the steps a chat turn has done are in the handler's order, each done
\* once: the history load first, then retrieval (the embedding before the
\* index search), the prompt, generation, the append.  The model has answered
\* only after retrieval was complete and the prompt built, and the append has
\* started only after the model answered.
C16_StepsInOrder ==
  \A p \in Procs :
    req[p].op = "chat" =>
      LET r == req[p] IN
      /\ \A i, j \in 1..Len(r.io) : i < j => Rank(r.io[i]) < Rank(r.io[j])
      /\ r.io # <<>> => r.io[1] = "getSession"
      /\ Done(r, "search") =>
           (Done(r, "embed.cacheGet") \/ (Truthy(r.query) /\ Blank(r.query.s)))
      /\ Done(r, "buildPrompt") =>
           /\ Done(r, "retrieve.cacheGet")
           /\ Done(r, "search") <=> Done(r, "retrieve.cacheSet")
           /\ Done(r, "embed.post") => Done(r, "embed.cacheSet")
      /\ Done(r, "askModel") => Done(r, "buildPrompt")
      /\ Done(r, "append.getSession") => Done(r, "askModel")
      /\ r.pc = "ask" => r.io[Len(r.io)] = "buildPrompt"

\* A turn has gone through every step, cache misses included, and was answered.
C16_Witness ==
  \E p \in Procs :
    /\ req[p].op = "chat" /\ req[p].pc = "done" /\ req[p].status = 200
    /\ req[p].io = StepOrder

\* The chat turn of process p has stored its entry.
Appended(p) ==
  req[p].op = "chat" /\ req[p].pc = "done" /\ Done(req[p], "append.set")

\* C17: the entry a chat turn has stored is {query, answer} with the
\* request's query and the answer given to the caller, and that answer is a
\* string, never null or missing.
C17_StoredAnswerIsString ==
  \A p \in Procs :
    Appended(p) =>
      /\ req[p].entry = Turn(req[p].query, req[p].answer)
      /\ req[p].query.t = "str"
      /\ req[p].answer.t = "str"

\* The part of it that holds: the stored entry is {query, answer} with the
\* request's query string and the answer given to the caller, last in the
\* history returned.
C17_StoredEntryIsTheTurn ==
  \A p \in Procs :
    Appended(p) =>
      /\ req[p].entry = Turn(req[p].query, req[p].answer)
      /\ req[p].query.t = "str"
      /\ req[p].out.a[Len(req[p].out.a)] = req[p].entry

(***************************************************************************)
(* Properties of the retrieval cache in time.                              *)
(***************************************************************************)
\* Process p's retrieveTopK returns what its cacheGet found, in this step.
RetrieveHitStep(p) ==
  RetrieveGetStep(p) /\ Done(req'[p], "buildPrompt")

\* C18: the passages a retrieveTopK returns from the cache are those an index
\* search produced and retrieveTopK cached less than 300 s before; the
\* seconds are counted from the cacheSet that followed the search.
C18_NotStaleBeyondTtl ==
  [][\A p \in Procs :
       RetrieveHitStep(p)
       => /\ lastWrite[req[p].cacheKey].op = "cacheSet"
          /\ lastWrite[req[p].cacheKey].ttl = RETRIEVE_TTL
          /\ lastWrite[req[p].cacheKey].age < RETRIEVE_TTL
          /\ req'[p].passages = lastWrite[req[p].cacheKey].arg]_vars

\* The part of it that holds: an entry that retrieveTopK wrote last lives
\* 300 s from that write, whatever was read meanwhile, and a hit on it
\* returns the passages written.
C18_CachedEntryLives300 ==
  [][\A p \in Procs :
       LET key == req[p].cacheKey IN
       /\ (/\ key \in DOMAIN lastWrite /\ lastWrite[key].op = "cacheSet")
          => IF lastWrite[key].age < RETRIEVE_TTL
             THEN /\ key \in DOMAIN store
                  /\ store[key].ttl = RETRIEVE_TTL - lastWrite[key].age
             ELSE key \notin DOMAIN store
       /\ (RetrieveHitStep(p) /\ lastWrite[key].op = "cacheSet")
          => /\ lastWrite[key].age < RETRIEVE_TTL
             /\ req'[p].passages = lastWrite[key].arg]_vars

(***************************************************************************)
(* Properties of chat turns on one session.                                *)
(***************************************************************************)
\* The read inside the append of chat turn p is answered in this step.
ChatAppendGetStep(p) ==
  req[p].op = "chat" /\ req[p].pc = "append-get" /\ req'[p] # req[p]

\* Entry e is in history h before its last place.
Kept(e, h) == \E i \in 1..(Len(h.a) - 1) : h.a[i] = e

\* C19: the history a chat turn stores and returns is what its append read,
\* with its entry last: the entry of every turn on the same session that
\* ended between this turn's load and its append is in it, before that entry.
C19_AppendKeepsTurnsSinceLoad ==
  [][\A p \in Procs :
       ChatAppendGetStep(p)
       => /\ req'[p].pc = "append-set"
          /\ req'[p].pushed.a[Len(req'[p].pushed.a)] = req[p].entry
          /\ \A q \in AppendedTo(req[p].sid) \ req[p].before :
               Kept(req[q].entry, req'[p].pushed)]_vars

\* The part of it that holds: what a chat turn has stored and returned is the
\* history its append read, not the one it loaded, with its entry last.
C19_AppendUsesItsOwnRead ==
  \A p \in Procs :
    Appended(p) =>
      req[p].out = JArr(Append(SeenHistory(req[p].seen).a, req[p].entry))

(***************************************************************************)
(* Properties of retrieval for the queries the handler accepts.            *)
(***************************************************************************)
\* C20: a chat turn that has searched the index has passed it an embedding
\* that is not null; a turn that has no embedding has made no search and
\* cached no passages.
C20_NoSearchWithNullVector ==
  \A p \in Procs :
    (req[p].op = "chat" /\ Done(req[p], "retrieve.cacheGet"))
    => /\ Done(req[p], "search") => req[p].emb # JNull
       /\ Done(req[p], "retrieve.cacheSet") => req[p].emb # JNull

\* The part of it that holds: for a query that is not blank, the index is
\* searched with the embedding the provider or the cache gave.
C20_SearchWithEmbeddingUnlessBlank ==
  \A p \in Procs :
    (req[p].op = "chat" /\ Done(req[p], "search") /\ ~Blank(req[p].query.s))
    => req[p].emb.t = "arr"

====
